---- MODULE Spec2Model ----
(***************************************************************************)
(* A model of the SYSTAT hypothesis-testing HTTP handlers.                 *)
(*                                                                         *)
(* Numbers.  The handlers compute with floats.  The model computes the     *)
(* same expressions exactly:                                               *)
(*   - a rational is a record [k, n, d] with k = "fin" (value n/d, d > 0,  *)
(*     reduced), or k = "nan" (IEEE NaN);                                  *)
(*   - a value that went through a square root is a signed surd            *)
(*     [k, s, n, d] standing for s * sqrt(n/d), with k = "inf" for +-inf   *)
(*     and k = "nan" for NaN;                                              *)
(*   - an interval bound center -+ margin is the pair [c, m] of a rational *)
(*     center and a surd m, standing for c + m.                            *)
(* The scipy distribution functions are tabulated (Quantiles below): the   *)
(* cdf is the step function those quantiles define, so it is monotone,     *)
(* symmetric (cdf(-x) = 1 - cdf(x)) and cdf(|x|) >= 1/2.                   *)
(*                                                                         *)
(* Left out.  The responses' round(x, 3) is not applied: a response field  *)
(* holds the number before rounding.  The power_of_test field of the       *)
(* two-proportion z-test and the plot data of the summary-statistic        *)
(* handlers are not part of this model.  A database row is represented by  *)
(* its dataset_id, its first input column and one result column.           *)
(***************************************************************************)
EXTENDS Integers, Sequences, FiniteSets, TLC

VARIABLES
    app,    \* the Flask application that is running
    db,     \* the rows of the table the running application writes to
    pc,     \* "idle", or "responded" while a response is on its way
    req,    \* the request being answered
    resp    \* its response

vars == <<app, db, pc, req, resp>>

----------------------------------------------------------------------------
(* Bounds of the model.                                                    *)

\* longest raw sample (list of observations) a request carries
MaxLen == 3
\* largest num_comparisons a request carries
MaxComparisons == 3
\* most rows the test_results table grows to
MaxRows == 2

----------------------------------------------------------------------------
(* Exact arithmetic standing for the handlers' float arithmetic.           *)

Abs(x) == IF x < 0 THEN -x ELSE x

Sgn(x) == IF x > 0 THEN 1 ELSE IF x < 0 THEN -1 ELSE 0

RECURSIVE Gcd(_, _)
Gcd(a, b) == IF b = 0 THEN a ELSE Gcd(b, a % b)

RECURSIVE IPow(_, _)
IPow(b, e) == IF e <= 0 THEN 1 ELSE b * IPow(b, e - 1)

\* a/b < c/d for a, c >= 0 and b, d > 0, by continued fractions (no products)
RECURSIVE PosLT(_, _, _, _)
PosLT(a, b, c, d) ==
    LET qa == a \div b
        qc == c \div d
        ra == a % b
        rc == c % d
    IN  IF qa # qc THEN qa < qc
        ELSE IF rc = 0 THEN FALSE
        ELSE IF ra = 0 THEN TRUE
        ELSE PosLT(d, rc, b, ra)

NaN == [k |-> "nan", n |-> 0, d |-> 1]

\* the rational n/d, d # 0, reduced
Rat(n, d) ==
    LET g == Gcd(Abs(n), Abs(d))
    IN  [k |-> "fin", n |-> Sgn(n) * Sgn(d) * (Abs(n) \div g), d |-> Abs(d) \div g]

RInt(i) == Rat(i, 1)

One == RInt(1)

IsNaN(x) == x.k = "nan"

RatAdd(x, y) ==
    IF IsNaN(x) \/ IsNaN(y) THEN NaN ELSE Rat(x.n * y.d + y.n * x.d, x.d * y.d)

RatNeg(x) == IF IsNaN(x) THEN NaN ELSE Rat(-x.n, x.d)

RatSub(x, y) == RatAdd(x, RatNeg(y))

RatMul(x, y) == IF IsNaN(x) \/ IsNaN(y) THEN NaN ELSE Rat(x.n * y.n, x.d * y.d)

\* x ** e for an integer e >= 0
RatPow(x, e) == IF IsNaN(x) THEN NaN ELSE Rat(IPow(x.n, e), IPow(x.d, e))

\* x < y; every comparison with NaN is false
RatLT(x, y) ==
    /\ ~IsNaN(x)
    /\ ~IsNaN(y)
    /\ IF x.n < 0 /\ y.n >= 0 THEN TRUE
       ELSE IF x.n >= 0 /\ y.n < 0 THEN FALSE
       ELSE IF x.n >= 0 THEN PosLT(x.n, x.d, y.n, y.d)
       ELSE PosLT(-y.n, y.d, -x.n, x.d)

RatLE(x, y) == ~IsNaN(x) /\ ~IsNaN(y) /\ ~RatLT(y, x)

\* Python's min(x, y): y when y < x, and x otherwise (so min(NaN, 1) is NaN)
PyMin(x, y) == IF RatLT(y, x) THEN y ELSE x

----------------------------------------------------------------------------
(* Signed surds: s * sqrt(n/d).                                            *)

SNaN == [k |-> "nan", s |-> 0, n |-> 0, d |-> 1]

SInf(s) == [k |-> "inf", s |-> s, n |-> 1, d |-> 1]

Surd(s, n, d) ==
    IF s = 0 \/ n = 0 THEN [k |-> "fin", s |-> 0, n |-> 0, d |-> 1]
    ELSE LET g == Gcd(n, d) IN [k |-> "fin", s |-> s, n |-> n \div g, d |-> d \div g]

\* a rational as a surd
SRat(x) == IF IsNaN(x) THEN SNaN ELSE Surd(Sgn(x.n), x.n * x.n, x.d * x.d)

\* math.sqrt / np.sqrt of a rational x >= 0
SSqrt(x) == IF IsNaN(x) THEN SNaN ELSE Surd(1, x.n, x.d)

SNeg(x) == [x EXCEPT !.s = -x.s]

SAbs(x) == [x EXCEPT !.s = Abs(x.s)]

SMul(x, y) ==
    IF x.k = "nan" \/ y.k = "nan" THEN SNaN
    ELSE IF x.k = "inf" \/ y.k = "inf"
         THEN IF x.s * y.s = 0 THEN SNaN ELSE SInf(x.s * y.s)
    ELSE Surd(x.s * y.s, x.n * y.n, x.d * y.d)

\* x / y in numpy's float arithmetic: x/0 is +-inf, 0/0 and inf/inf are NaN
SDiv(x, y) ==
    IF x.k = "nan" \/ y.k = "nan" THEN SNaN
    ELSE IF y.k = "inf" THEN (IF x.k = "inf" THEN SNaN ELSE Surd(0, 0, 1))
    ELSE IF x.k = "inf" THEN SInf(x.s * (IF y.s < 0 THEN -1 ELSE 1))
    ELSE IF y.s = 0 THEN (IF x.s = 0 THEN SNaN ELSE SInf(x.s))
    ELSE Surd(x.s * y.s, x.n * y.d, x.d * y.n)

\* |x| >= q/100 for a finite surd x and an integer q >= 0
SAbsGE(x, q) == ~PosLT(x.n, x.d, q * q, 100 * 100)

SLT(x, y) ==
    LET MagLT(a, b) ==
            IF a.k = "inf" THEN FALSE
            ELSE IF b.k = "inf" THEN TRUE
            ELSE PosLT(a.n, a.d, b.n, b.d)
    IN  /\ x.k # "nan"
        /\ y.k # "nan"
        /\ IF x.s # y.s THEN x.s < y.s
           ELSE IF x.s = 0 THEN FALSE
           ELSE IF x.s = 1 THEN MagLT(x, y)
           ELSE MagLT(y, x)

SLE(x, y) == x.k # "nan" /\ y.k # "nan" /\ ~SLT(y, x)

\* center - margin and center + margin
BoundSub(c, m) == [c |-> c, m |-> SNeg(m)]

BoundAdd(c, m) == [c |-> c, m |-> m]

BoundIsNaN(b) == IsNaN(b.c) \/ b.m.k = "nan"

\* a <= b for two bounds around the same center (every interval the handlers
\* build is center -+ margin)
BoundLE(a, b) == ~BoundIsNaN(a) /\ ~BoundIsNaN(b) /\ a.c = b.c /\ SLE(a.m, b.m)

----------------------------------------------------------------------------
(* scipy.stats.t and scipy.stats.norm, tabulated.                          *)

\* probabilities are tabulated in steps of 1/PScale
PScale == 2 * 100

\* the tabulated cumulative probabilities, times PScale: 0.5, 0.75, 0.9,
\* 0.95, 0.975, 0.98, 0.99, 0.995
Levels == <<100, 150, 180, 190, 195, 196, 198, 199>>

\* Student-t quantiles of those probabilities, times 100, for df = 1..8
TQuantiles ==
    << <<0, 100, 308, 631, 1271, 1589, 3182, 6366>>,
       <<0,  82, 189, 292,  430,  485,  696,  992>>,
       <<0,  76, 164, 235,  318,  348,  454,  584>>,
       <<0,  74, 153, 213,  278,  300,  375,  460>>,
       <<0,  73, 148, 202,  257,  276,  336,  403>>,
       <<0,  72, 144, 194,  245,  261,  314,  371>>,
       <<0,  71, 142, 190,  237,  252,  300,  350>>,
       <<0,  71, 140, 186,  231,  245,  290,  336>> >>

\* standard normal quantiles of those probabilities, times 100
NormQuantiles == <<0, 67, 128, 164, 196, 205, 233, 258>>

\* the row of Student-t(df), df >= 1; beyond the table t is taken as normal
TRow(df) == IF df \in DOMAIN TQuantiles THEN TQuantiles[df] ELSE NormQuantiles

SetMax(S) == CHOOSE j \in S : \A i \in S : i <= j

\* cdf(x) of the distribution with quantile row `row`
Cdf(row, x) ==
    IF x.k = "nan" THEN NaN
    ELSE IF x.k = "inf" THEN (IF x.s > 0 THEN RInt(1) ELSE RInt(0))
    ELSE LET i == SetMax({j \in DOMAIN row : SAbsGE(x, row[j])})
         IN  IF x.s >= 0 THEN Rat(Levels[i], PScale)
             ELSE Rat(PScale - Levels[i], PScale)

\* ppf(q) of the distribution with quantile row `row`
Ppf(row, q) ==
    LET Upper(u) ==
            LET i == SetMax({j \in DOMAIN row : RatLE(Rat(Levels[j], PScale), u)})
            IN  Surd(1, row[i] * row[i], 100 * 100)
    IN  IF IsNaN(q) \/ RatLT(q, RInt(0)) \/ RatLT(RInt(1), q) THEN SNaN
        ELSE IF q = RInt(0) THEN SInf(-1)
        ELSE IF q = RInt(1) THEN SInf(1)
        ELSE IF RatLE(Rat(1, 2), q) THEN Upper(q)
        ELSE SNeg(Upper(RatSub(One, q)))

t_cdf(x, df) == IF df <= 0 THEN NaN ELSE Cdf(TRow(df), x)

t_ppf(q, df) == IF df <= 0 THEN SNaN ELSE Ppf(TRow(df), q)

norm_cdf(x) == Cdf(NormQuantiles, x)

norm_ppf(q) == Ppf(NormQuantiles, q)

----------------------------------------------------------------------------
(* Responses.                                                              *)

NoRequest == [endpoint |-> "none"]

NoResponse == [status |-> 0]

Error(status, message) == [status |-> status, error |-> message]

\* dict.get(key, default) on a record standing for a dict
Get(dict, key, default) == IF key \in DOMAIN dict THEN dict[key] ELSE default

\* a JSON value with "None" standing for an absent key
OrDefault(value, default) == IF value = "None" THEN default ELSE value

----------------------------------------------------------------------------
(* POST /ttest of One-sample-t-test_api.py: one-sample t-test from summary *)
(* statistics.                                                             *)

\* lines 76-81: the p-value for the requested alternative
ttest_p_value(alternative, t_score, df) ==
    IF alternative = "greater" THEN RatSub(One, t_cdf(t_score, df))
    ELSE IF alternative = "less" THEN t_cdf(t_score, df)
    ELSE RatMul(RInt(2), RatSub(One, t_cdf(SAbs(t_score), df)))

\* a bonferroni adjustment that does not cap the product at 1
BonferroniNoClamp(p_value, adjustment, num_comparisons) ==
    IF adjustment = "bonferroni" /\ num_comparisons > 1
    THEN RatMul(p_value, RInt(num_comparisons))
    ELSE IF adjustment = "dunn_sidak" /\ num_comparisons > 1
    THEN PyMin(RatSub(One, RatPow(RatSub(One, p_value), num_comparisons)), One)
    ELSE p_value

\* a dunn_sidak adjustment that multiplies where the code raises to a power
SidakByProduct(p_value, adjustment, num_comparisons) ==
    IF adjustment = "bonferroni" /\ num_comparisons > 1
    THEN PyMin(RatMul(p_value, RInt(num_comparisons)), One)
    ELSE IF adjustment = "dunn_sidak" /\ num_comparisons > 1
    THEN PyMin(RatSub(One, RatMul(RatSub(One, p_value), RInt(num_comparisons))), One)
    ELSE p_value

\* a dunn_sidak adjustment that forgets the complement: (1 - p)^k
SidakWithoutComplement(p_value, adjustment, num_comparisons) ==
    IF adjustment = "bonferroni" /\ num_comparisons > 1
    THEN PyMin(RatMul(p_value, RInt(num_comparisons)), One)
    ELSE IF adjustment = "dunn_sidak" /\ num_comparisons > 1
    THEN PyMin(RatPow(RatSub(One, p_value), num_comparisons), One)
    ELSE p_value

\* lines 84-87: the multiple-comparison adjustment
ttest_adjust(p_value, adjustment, num_comparisons) ==
    IF adjustment = "bonferroni" /\ num_comparisons > 1
    THEN PyMin(RatMul(p_value, RInt(num_comparisons)), One)
    ELSE IF adjustment = "dunn_sidak" /\ num_comparisons > 1
    THEN PyMin(RatSub(One, RatPow(RatSub(One, p_value), num_comparisons)), One)
    ELSE p_value

\* lines 90-91
ttest_conclusion(p_value, confidence_level) ==
    LET alpha == RatSub(One, confidence_level)
    IN  IF RatLT(p_value, alpha) THEN "Reject null hypothesis"
        ELSE "Fail to reject null hypothesis"

one_sample_t_test(data) ==
    IF ~data.body THEN Error(400, "No input data provided.")
    ELSE IF data.missing THEN Error(400, "Missing required parameters.")
    ELSE IF data.sample_size <= 1
    THEN Error(400, "Sample size must be greater than one for a t-test.")
    ELSE IF data.sample_std <= 0
    THEN Error(400, "Sample standard deviation must be greater than zero.")
    ELSE IF ~(RatLT(RInt(0), data.confidence_level) /\ RatLT(data.confidence_level, One))
    THEN Error(400, "Confidence level must be between 0 and 1 (exclusive).")
    ELSE
    LET std_err == SDiv(SRat(RInt(data.sample_std)), SSqrt(RInt(data.sample_size)))
        t_score == SDiv(SRat(RInt(data.sample_mean - data.population_mean)), std_err)
        df == data.sample_size - 1
        alternative == OrDefault(data.alternative, "not_equal")
        p_value == ttest_adjust(ttest_p_value(alternative, t_score, df),
                                data.adjustment, data.num_comparisons)
        critical_value ==
            t_ppf(RatMul(RatAdd(One, data.confidence_level), Rat(1, 2)), df)
        margin_of_error == SMul(critical_value, std_err)
    IN  [status |-> 200,
         t_score |-> t_score,
         p_value |-> p_value,
         degrees_of_freedom |-> df,
         lower |-> BoundSub(RInt(data.sample_mean), margin_of_error),
         upper |-> BoundAdd(RInt(data.sample_mean), margin_of_error),
         confidence_level |-> data.confidence_level,
         conclusion |-> ttest_conclusion(p_value, data.confidence_level),
         adjustment |-> data.adjustment,
         num_comparisons |-> data.num_comparisons]

\* a dataset_id sent as JSON null: Python's None, stored as SQL NULL
Null == "null"

\* lines 18-31: dataset_id is UNIQUE, so INSERT OR REPLACE removes the row
\* that holds the same dataset_id before it inserts the new one; a NULL
\* dataset_id conflicts with no row, other NULLs included
InsertOrReplace(table, row) ==
    SelectSeq(table, LAMBDA r : r.dataset_id # row.dataset_id
                                \/ row.dataset_id = Null) \o <<row>>

\* a table that is written before the request is validated
t_test_data_update_unvalidated(table, data) ==
    LET result == one_sample_t_test(data)
    IN  IF ~data.body \/ data.missing THEN table
        ELSE InsertOrReplace(table,
                 [dataset_id |-> OrDefault(data.dataset_id, "default_dataset"),
                  sample_mean |-> data.sample_mean,
                  conclusion |-> IF result.status = 200 THEN result.conclusion
                                 ELSE "None"])

\* lines 99-114: the t_test_data table after the handler answered `data`
t_test_data_update(table, data) ==
    LET result == one_sample_t_test(data)
    IN  IF result.status # 200 THEN table
        ELSE InsertOrReplace(table,
                 [dataset_id |-> OrDefault(data.dataset_id, "default_dataset"),
                  sample_mean |-> data.sample_mean,
                  conclusion |-> result.conclusion])

\* the alternatives and adjustments a client may send ("None": key absent)
SummaryAlternatives == {"None", "greater", "less", "bogus"}

TTestAdjustments == {"None", "bonferroni", "dunn_sidak", "sidak", "bogus"}

ConfidenceLevels == {Rat(95, 100), Rat(90, 100), Rat(120, 100)}

TTestRequests ==
    [endpoint : {"one_sample_t_test"},
     body : {TRUE}, missing : {FALSE}, dataset_id : {"None"},
     sample_mean : {3, 5, 7}, population_mean : {5},
     sample_std : {0, 1, 2}, sample_size : {1, 2, 4},
     confidence_level : ConfidenceLevels,
     alternative : SummaryAlternatives,
     adjustment : TTestAdjustments,
     num_comparisons : 0..MaxComparisons]
    \cup
    \* no JSON body, and a body without a required parameter
    [endpoint : {"one_sample_t_test"},
     body : BOOLEAN, missing : {TRUE}, dataset_id : {"None"},
     sample_mean : {5}, population_mean : {5},
     sample_std : {1}, sample_size : {4},
     confidence_level : {Rat(95, 100)},
     alternative : {"None"}, adjustment : {"None"}, num_comparisons : {1}]
    \cup
    \* a dataset_id of the client's
    [endpoint : {"one_sample_t_test"},
     body : {TRUE}, missing : {FALSE}, dataset_id : {"d1"},
     sample_mean : {3, 7}, population_mean : {5},
     sample_std : {1}, sample_size : {4},
     confidence_level : {Rat(95, 100)},
     alternative : {"None"}, adjustment : {"None"}, num_comparisons : {1}]
    \cup
    \* "dataset_id": null
    [endpoint : {"one_sample_t_test"},
     body : {TRUE}, missing : {FALSE}, dataset_id : {Null},
     sample_mean : {3}, population_mean : {5},
     sample_std : {1}, sample_size : {4},
     confidence_level : {Rat(95, 100)},
     alternative : {"None"}, adjustment : {"None"}, num_comparisons : {1}]

----------------------------------------------------------------------------
(* numpy / scipy sample statistics.                                        *)

\* the observations a raw sample is drawn from
SampleValues == {1, 3}

Samples == UNION {[1..n -> SampleValues] : n \in 0..MaxLen}

RECURSIVE Sum(_)
Sum(xs) == IF xs = <<>> THEN 0 ELSE Head(xs) + Sum(Tail(xs))

Squares(xs) == [i \in DOMAIN xs |-> xs[i] * xs[i]]

\* sum(xs) / len(xs); 0/0 is NaN
np_mean(xs) == IF Len(xs) = 0 THEN NaN ELSE Rat(Sum(xs), Len(xs))

\* np.var(xs, ddof=1); a single observation gives 0/0 = NaN
np_var(xs) ==
    IF Len(xs) < 2 THEN NaN
    ELSE Rat(Len(xs) * Sum(Squares(xs)) - Sum(xs) * Sum(xs), Len(xs) * (Len(xs) - 1))

\* np.std(xs, ddof=1) and scipy.stats.tstd(xs)
np_std(xs) == SSqrt(np_var(xs))

\* x / n for a rational x and an integer n >= 1
RatOver(x, n) == RatMul(x, Rat(1, n))

\* the statistic of scipy.stats.ttest_1samp(xs, popmean)
ttest_1samp(xs, popmean) ==
    SDiv(SRat(RatSub(np_mean(xs), RInt(popmean))),
         SSqrt(RatOver(np_var(xs), Len(xs))))

\* d_i = before_i - after_i, for sequences of equal length
Differences(before, after) == [i \in DOMAIN before |-> before[i] - after[i]]

\* Welch-Satterthwaite degrees of freedom, as scipy.stats.ttest_ind computes
\* them for equal_var=False; NaN when both variances are 0
welch_df(group1, group2) ==
    LET vn1 == RatOver(np_var(group1), Len(group1))
        vn2 == RatOver(np_var(group2), Len(group2))
        num == RatMul(RatAdd(vn1, vn2), RatAdd(vn1, vn2))
        den == RatAdd(RatOver(RatMul(vn1, vn1), Len(group1) - 1),
                      RatOver(RatMul(vn2, vn2), Len(group2) - 1))
    IN  IF IsNaN(den) \/ den.n = 0 THEN NaN
        ELSE Rat(num.n * den.d, num.d * den.n)

\* t.cdf(x, df) for a fractional df: the table row of floor(df)
t_cdf_frac(x, df) == IF IsNaN(df) THEN NaN ELSE t_cdf(x, df.n \div df.d)

\* the p-value scipy computes from a t statistic for `alternative`
scipy_p_value(alternative, t_stat, cdf_t, cdf_abs) ==
    IF alternative = "greater" THEN RatSub(One, cdf_t)
    ELSE IF alternative = "less" THEN cdf_t
    ELSE RatMul(RInt(2), RatSub(One, cdf_abs))

----------------------------------------------------------------------------
(* POST /ttest/one_sample_ttest of app/api/One_sample_t_test_api.py:       *)
(* one-sample t-test from a raw sample (JSON body).                        *)

\* lines 69-74
raw_p_value(alternative, t_stat, df) ==
    IF alternative = "greater" THEN RatSub(One, t_cdf(t_stat, df))
    ELSE IF alternative = "less" THEN t_cdf(t_stat, df)
    ELSE RatMul(RInt(2), RatSub(One, t_cdf(SAbs(t_stat), df)))

\* lines 77-80
raw_t_critical(alternative, confidence, df) ==
    IF alternative \in {"greater", "less"}
    THEN t_ppf(RatSub(One, confidence), df)
    ELSE t_ppf(RatSub(One, RatMul(RatSub(One, confidence), Rat(1, 2))), df)

calculate_one_sample_t_test(sample, population_mean, alternative, confidence) ==
    LET sample_size == Len(sample)
        sample_mean == np_mean(sample)
        sample_std == np_std(sample)
        df == sample_size - 1
        t_stat == ttest_1samp(sample, population_mean)
        p_value == raw_p_value(alternative, t_stat, df)
        t_critical == raw_t_critical(alternative, confidence, df)
        margin_of_error ==
            SMul(t_critical, SDiv(sample_std, SSqrt(RInt(sample_size))))
    IN  IF sample_size < 2
        THEN Error(500, "Error in one-sample t-test calculation: Sample size must be greater than one.")
        ELSE [status |-> 200,
              alternative |-> alternative,
              sample_size |-> sample_size,
              sample_mean |-> sample_mean,
              sample_std |-> sample_std,
              degrees_of_freedom |-> df,
              t_score |-> t_stat,
              p_value |-> p_value,
              lower |-> BoundSub(sample_mean, margin_of_error),
              upper |-> BoundAdd(sample_mean, margin_of_error),
              confidence_level |-> RatMul(confidence, RInt(100))]

one_sample_ttest(data) ==
    IF data.kind = "none"
    THEN Error(400, "No data provided. Please provide either JSON or file input.")
    ELSE IF data.sample = <<>>
    THEN Error(500, "Error processing input data: JSON must contain a 'sample' field with data.")
    ELSE calculate_one_sample_t_test(data.sample, data.population_mean,
                                     OrDefault(data.alternative, "two-sided"),
                                     data.confidence_level)

RawAlternatives == {"None", "two-sided", "greater", "less", "bogus"}

RawTTestRequests ==
    [endpoint : {"one_sample_ttest"}, kind : {"json", "none"},
     sample : Samples, population_mean : {1, 2},
     alternative : RawAlternatives,
     confidence_level : ConfidenceLevels]

----------------------------------------------------------------------------
(* POST /api/two_sample_ttest of app/api/two_sample_t_test_api.py.         *)

\* lines 24-29: only the two groups are kept
two_sample_read_json_input(json_data) ==
    [group1 |-> json_data.group1, group2 |-> json_data.group2]

calculate_and_format_two_sample_t_test(group1, group2, alternative, confidence) ==
    LET mean1 == np_mean(group1)
        mean2 == np_mean(group2)
        mean_difference == RatSub(mean1, mean2)
        std_err == SSqrt(RatAdd(RatOver(np_var(group1), Len(group1)),
                                RatOver(np_var(group2), Len(group2))))
        t_stat == SDiv(SRat(mean_difference), std_err)
        wdf == welch_df(group1, group2)
        p_value == scipy_p_value(alternative, t_stat, t_cdf_frac(t_stat, wdf),
                                 t_cdf_frac(SAbs(t_stat), wdf))
        df == Len(group1) + Len(group2) - 2
        t_critical ==
            t_ppf(RatSub(One, RatMul(RatSub(One, confidence), Rat(1, 2))), df)
        margin_of_error == SMul(t_critical, std_err)
    IN  [status |-> 200,
         alternative |-> alternative,
         mean_difference |-> mean_difference,
         standard_error |-> std_err,
         t_score |-> t_stat,
         degrees_of_freedom |-> df,
         p_value |-> p_value,
         lower |-> BoundSub(mean_difference, margin_of_error),
         upper |-> BoundAdd(mean_difference, margin_of_error)]

\* app/utils.py lines 81-114, then the calculation
two_sample_ttest(data) ==
    IF data.kind = "none"
    THEN Error(400, "No data provided. Please provide either JSON or file input.")
    ELSE IF data.group1 = <<>> \/ data.group2 = <<>>
    THEN Error(500, "Error processing input data: JSON must contain 'group1' and 'group2' fields.")
    ELSE
    LET groups == two_sample_read_json_input(data)
        alternative == Get(groups, "alternative", "two-sided")
        confidence == Get(groups, "confidence", Rat(95, 100))
    IN  IF Len(groups.group1) < 2 \/ Len(groups.group2) < 2
        THEN Error(500, "Validation error: Each group must contain at least two values.")
        ELSE IF alternative \notin {"two-sided", "greater", "less"}
        THEN Error(500, "Validation error: Invalid alternative hypothesis. Choose from 'two-sided', 'greater', or 'less'.")
        ELSE IF ~(RatLT(RInt(0), confidence) /\ RatLT(confidence, One))
        THEN Error(500, "Validation error: Confidence level must be between 0 and 1.")
        ELSE calculate_and_format_two_sample_t_test(groups.group1, groups.group2,
                                                    alternative, confidence)

TwoSampleTTestRequests ==
    [endpoint : {"two_sample_ttest"}, kind : {"json"},
     group1 : Samples, group2 : Samples,
     alternative : {"two-sided", "greater", "less", "bogus"},
     confidence : {Rat(95, 100), Rat(120, 100)}]
    \cup
    [endpoint : {"two_sample_ttest"}, kind : {"none"},
     group1 : {<<>>}, group2 : {<<>>},
     alternative : {"two-sided"}, confidence : {Rat(95, 100)}]

----------------------------------------------------------------------------
(* POST /api/paired_ttest of app/api/paired_t_test_api.py.                 *)

\* the 1.96 of line 74
PairedZ == 196

\* a degrees-of-freedom count that does not subtract one
paired_df_n(before) == Len(before)

\* line 75
paired_df(before) == Len(before) - 1

calculate_and_format_paired_t_test(before, after) ==
    IF Len(before) # Len(after)
    THEN Error(500, "Error in paired t-test calculation: unequal length arrays")
    ELSE
    LET d == Differences(before, after)
        t_stat == ttest_1samp(d, 0)
        df == paired_df(before)
        p_value == RatMul(RInt(2), RatSub(One, t_cdf(SAbs(t_stat), df)))
        mean_difference == RatSub(Rat(Sum(before), Len(before)),
                                  Rat(Sum(after), Len(after)))
        standard_deviation == np_std(d)
        margin == SMul(SRat(Rat(PairedZ, 100)),
                       SDiv(standard_deviation, SSqrt(RInt(Len(before)))))
    IN  [status |-> 200,
         H1 |-> "Mean Difference > 0",
         n_before |-> Len(before),
         n_after |-> Len(after),
         mean_difference |-> mean_difference,
         confidence_bound |-> BoundSub(mean_difference, margin),
         standard_deviation |-> standard_deviation,
         t_score |-> t_stat,
         degrees_of_freedom |-> df,
         p_value |-> p_value]

\* a handler that pairs the two lists as zip does, up to the shorter one
paired_ttest_zipped(data) ==
    IF data.kind = "none"
    THEN Error(400, "No data provided. Please provide either JSON or file input.")
    ELSE IF data.before = <<>> \/ data.after = <<>>
    THEN Error(500, "Error processing input data: Both variables must contain data.")
    ELSE LET n == IF Len(data.before) < Len(data.after)
                  THEN Len(data.before) ELSE Len(data.after)
         IN  calculate_and_format_paired_t_test(SubSeq(data.before, 1, n),
                                                SubSeq(data.after, 1, n))

\* lines 23-40 and 42-62: a JSON list may not be empty; the two columns of an
\* uploaded file are not checked, and sum(before) / len(before) of line 71
\* raises on an empty column
paired_ttest(data) ==
    IF data.kind = "none"
    THEN Error(400, "No data provided. Please provide either JSON or file input.")
    ELSE IF data.kind = "json" /\ (data.before = <<>> \/ data.after = <<>>)
    THEN Error(500, "Error processing input data: Both variables must contain data.")
    ELSE IF data.before = <<>>
    THEN Error(500, "Error in paired t-test calculation: division by zero")
    ELSE calculate_and_format_paired_t_test(data.before, data.after)

\* two measurement series of five subjects
BloodPressureBefore == <<120, 122, 118, 130, 125>>

BloodPressureAfter == <<115, 117, 116, 125, 120>>

\* the two lists of a JSON body are independent; the two columns of an
\* uploaded file are the columns of one DataFrame and have one length
PairedTTestRequests ==
    [endpoint : {"paired_ttest"}, kind : {"json"},
     before : Samples, after : Samples]
    \cup
    [endpoint : {"paired_ttest"}, kind : {"json"},
     before : {BloodPressureBefore}, after : {BloodPressureAfter}]
    \cup
    {r \in [endpoint : {"paired_ttest"}, kind : {"file"},
            before : Samples, after : Samples] : Len(r.before) = Len(r.after)}
    \cup
    [endpoint : {"paired_ttest"}, kind : {"none"}, before : {<<>>}, after : {<<>>}]

----------------------------------------------------------------------------
(* POST /ztest/ of app/api/z_test_api.py: two-proportion z-test.  The      *)
(* groups come from a JSON body or from an uploaded CSV/Excel file; the    *)
(* three extra parameters are read from the form fields only.              *)

\* a form field or JSON key that is absent
None == [k |-> "none"]

OrNone(value, default) == IF value = None THEN default ELSE value

\* the defaults of lines 32-34
DefaultAlpha == Rat(5, 100)

DefaultConfidenceInterval == 95

\* app/utils.py lines 8-36: the DataFrame of the groups, or the error
z_read_input_data(data) ==
    IF data.kind = "json" /\ Len(data.groups) # 2
    THEN Error(500, "Error processing input data: Input JSON must contain exactly two groups with size and proportion.")
    ELSE [status |-> 0, groups |-> data.groups]

\* line 38, on numpy floats: 1/0 is inf, 0*inf is NaN, sqrt(inf) is inf
z_standard_error(pooled_p, n1, n2) ==
    LET pq == RatMul(pooled_p, RatSub(One, pooled_p))
    IN  IF IsNaN(pq) THEN SNaN
        ELSE IF n1 = 0 \/ n2 = 0 THEN (IF pq.n = 0 THEN SNaN ELSE SInf(1))
        ELSE SSqrt(RatMul(pq, RatAdd(Rat(1, n1), Rat(1, n2))))

\* line 52
z_conclusion(p_value, alpha_value) ==
    IF RatLT(p_value, alpha_value)
    THEN "There is a significant difference in the proportions."
    ELSE "No significant difference in the proportions."

\* a reading of the parameters that also looks into the JSON body
request_values(data) ==
    IF data.kind = "json" THEN data.json_parameters ELSE data.form

\* lines 32-34: request.form, the form fields of the request; a request
\* with a JSON body has none
request_form(data) == data.form

z_test(data) ==
    IF data.kind = "none"
    THEN Error(400, "No data provided. Please provide either JSON or file input.")
    ELSE
    LET read == z_read_input_data(data)
        groups == read.groups
        n1 == groups[1].size
        p1 == groups[1].proportion
        n2 == groups[2].size
        p2 == groups[2].proportion
        alpha_value == OrNone(request_form(data).alpha_value, DefaultAlpha)
        yates_correction == OrNone(request_form(data).yates_correction, 0)
        confidence_interval ==
            OrNone(request_form(data).confidence_interval,
                   RInt(DefaultConfidenceInterval)).n
        pooled_p == IF n1 + n2 = 0 THEN NaN
                    ELSE RatOver(RatAdd(RatMul(RInt(n1), p1), RatMul(RInt(n2), p2)),
                                 n1 + n2)
        standard_error == z_standard_error(pooled_p, n1, n2)
        z_score == SDiv(SRat(RatSub(p1, p2)), standard_error)
        p_value == RatMul(RInt(2), RatSub(One, norm_cdf(SAbs(z_score))))
        z_critical ==
            norm_ppf(RatSub(One, RatMul(RatSub(One, Rat(confidence_interval, 100)),
                                        Rat(1, 2))))
        margin_of_error == SMul(z_critical, standard_error)
    IN  IF read.status # 0 THEN read
        ELSE IF Len(groups) < 2
        THEN Error(500, "single positional indexer is out-of-bounds")
        ELSE IF data.integers
        THEN Error(500, "Object of type int64 is not JSON serializable")
        ELSE [status |-> 200,
              body |->
                [results |->
                   [yates_correction |-> yates_correction,
                    results |->
                      [difference |-> RatSub(p1, p2),
                       pooled_p |-> pooled_p,
                       standard_error |-> standard_error,
                       z_score |-> z_score,
                       p_value |-> p_value,
                       confidence_interval |->
                         [lower_bound |-> BoundSub(RatSub(p1, p2), margin_of_error),
                          upper_bound |-> BoundAdd(RatSub(p1, p2), margin_of_error)],
                       conclusion |-> z_conclusion(p_value, alpha_value)]],
                 groups |-> <<[group |-> 1, size |-> n1], [group |-> 2, size |-> n2]>>,
                 confidence_level |-> confidence_interval * 100]]

ProportionRows == [size : {0, 40, 60}, proportion : {RInt(0), Rat(3, 10), Rat(7, 10), RInt(1)}]

NoForm == [alpha_value |-> None, yates_correction |-> None, confidence_interval |-> None]

Forms ==
    [alpha_value : {None, Rat(1, 100)}, yates_correction : {None},
     confidence_interval : {None, RInt(90), RInt(99)}]

\* values a JSON body may carry under the names of the form fields
JsonParameters ==
    [alpha_value : {None, Rat(1, 100)}, yates_correction : {None},
     confidence_interval : {None, RInt(99)}]

\* integers: every size and proportion is written as an integer, so that
\* pandas reads integer columns
ZTestRequests ==
    {r \in [endpoint : {"z_test"}, kind : {"json", "file", "none"},
            groups : [1..2 -> ProportionRows]
                       \cup {<<[size |-> 40, proportion |-> Rat(3, 10)]>>}
                       \cup {<<[size |-> 40, proportion |-> Rat(3, 10)],
                               [size |-> 60, proportion |-> Rat(7, 10)],
                               [size |-> 60, proportion |-> Rat(3, 10)]>>},
            integers : BOOLEAN,
            form : Forms,
            json_parameters : JsonParameters] :
        /\ r.kind \in {"json", "none"} => r.form = NoForm
        /\ r.kind \in {"file", "none"} => r.json_parameters = NoForm
        /\ r.kind = "none" => r.groups = <<[size |-> 40, proportion |-> Rat(3, 10)]>>
        /\ r.integers => \A i \in DOMAIN r.groups : r.groups[i].proportion.d = 1}

----------------------------------------------------------------------------
(* POST /api/ of app/api/two_sample_z_test_api.py: two-sample z-test on    *)
(* grouped raw data with user-supplied standard deviations.                *)

\* str.upper() on the alternatives a client may send
Upper(str) ==
    CASE str = "ne" -> "NE"
      [] str = "lt" -> "LT"
      [] str = "gt" -> "GT"
      [] str = "less" -> "LESS"
      [] str = "greater" -> "GREATER"
      [] str = "two-sided" -> "TWO-SIDED"
      [] OTHER -> str

\* a two-tailed p-value taken from the statistic without abs()
zgroup_p_value_signed(alternative, z_score) ==
    IF alternative = "NE" THEN PyMin(RatMul(RInt(2), RatSub(One, norm_cdf(z_score))), One)
    ELSE IF alternative = "LT" THEN norm_cdf(z_score)
    ELSE RatSub(One, norm_cdf(z_score))

\* lines 52-57
zgroup_p_value(alternative, z_score) ==
    IF alternative = "NE" THEN RatMul(RInt(2), RatSub(One, norm_cdf(SAbs(z_score))))
    ELSE IF alternative = "LT" THEN norm_cdf(z_score)
    ELSE RatSub(One, norm_cdf(z_score))

two_sample_z_test_func(data) ==
    IF data.kind = "none"
    THEN Error(400, "No data provided. Please provide either JSON or file input.")
    ELSE IF data.missing THEN Error(500, "'std1'")
    ELSE
    LET std1 == data.std1
        std2 == data.std2
        confidence == OrNone(data.confidence, Rat(95, 100))
        alternative == Upper(OrDefault(data.alternative, "NE"))
        mean1 == np_mean(data.data[1])
        n1 == Len(data.data[1])
        mean2 == np_mean(data.data[2])
        n2 == Len(data.data[2])
        pooled_std == SSqrt(RatAdd(Rat(std1 * std1, n1), Rat(std2 * std2, n2)))
        z_score == SDiv(SRat(RatSub(mean1, mean2)), pooled_std)
        p_value == zgroup_p_value(alternative, z_score)
        z_critical ==
            norm_ppf(RatSub(One, RatMul(RatSub(One, confidence), Rat(1, 2))))
        mean_diff == RatSub(mean1, mean2)
    IN  IF std1 <= 0 \/ std2 <= 0
        THEN Error(400, "Standard deviations must be greater than zero.")
        ELSE IF Len(data.data) # 2
        THEN Error(400, "Invalid grouping variable. Ensure exactly two groups.")
        ELSE [status |-> 200,
              hypothesis |-> IF alternative = "NE" THEN "<>"
                             ELSE IF alternative = "LT" THEN "<" ELSE ">",
              sd1 |-> std1,
              sd2 |-> std2,
              n1 |-> n1,
              n2 |-> n2,
              confidence_level |-> confidence,
              mean_difference |-> mean_diff,
              lower |-> BoundSub(mean_diff, SMul(z_critical, pooled_std)),
              upper |-> BoundAdd(mean_diff, SMul(z_critical, pooled_std)),
              z_score |-> z_score,
              p_value |-> p_value]

\* the rows of one group of the grouped data: at least one observation
GroupRows == {xs \in Samples : Len(xs) \in 1..2}

GroupedZRequests ==
    [endpoint : {"two_sample_z_test_func"}, kind : {"json"}, missing : {FALSE},
     std1 : {0, 1, 2}, std2 : {1, 2},
     confidence : {None, Rat(120, 100)},
     alternative : {"None", "NE", "lt", "GT", "less", "greater", "bogus"},
     data : [1..2 -> GroupRows] \cup {<<<<1>>>>, <<<<1>>, <<3>>, <<1, 3>>>>}]
    \cup
    \* neither JSON nor file, and a body without a required key
    {r \in [endpoint : {"two_sample_z_test_func"}, kind : {"json", "none"},
            missing : BOOLEAN, std1 : {1}, std2 : {1}, confidence : {None},
            alternative : {"None"}, data : {<<<<1>>, <<3>>>>}] :
        r.kind = "none" \/ r.missing}

----------------------------------------------------------------------------
(* POST /ztest of z_test_api.py: one-sample z-test from summary            *)
(* statistics.                                                             *)

\* the significance level of line 47, in hundredths
ZAlphaPercent == 5

one_sample_z_test(data) ==
    IF ~data.body THEN Error(400, "No input data provided.")
    ELSE IF data.missing
    THEN Error(400, "All parameters (sample_mean, population_mean, standard_deviation, sample_size) are required.")
    ELSE IF data.sample_size <= 0
    THEN Error(400, "Sample size must be greater than zero.")
    ELSE IF data.standard_deviation <= 0
    THEN Error(400, "Standard deviation must be greater than zero.")
    ELSE
    LET z_score ==
            SDiv(SRat(RInt(data.sample_mean - data.population_mean)),
                 SDiv(SRat(RInt(data.standard_deviation)), SSqrt(RInt(data.sample_size))))
        p_value == RatMul(RInt(2), RatSub(One, norm_cdf(SAbs(z_score))))
    IN  [status |-> 200,
         z_score |-> z_score,
         p_value |-> p_value,
         conclusion |-> IF RatLT(p_value, Rat(ZAlphaPercent, 100))
                        THEN "Reject null hypothesis"
                        ELSE "Fail to reject null hypothesis"]

OneSampleZRequests ==
    [endpoint : {"one_sample_z_test"}, body : {TRUE}, missing : {FALSE},
     sample_mean : {3, 5, 6, 7}, population_mean : {5},
     standard_deviation : {0, 1, 2}, sample_size : {0, 1, 4}]
    \cup
    [endpoint : {"one_sample_z_test"}, body : BOOLEAN, missing : {TRUE},
     sample_mean : {5}, population_mean : {5},
     standard_deviation : {1}, sample_size : {4}]

----------------------------------------------------------------------------
(* POST /ztest_two_sample of z_test_api.py: two-sample z-test from summary *)
(* statistics.                                                             *)

ztest_two_sample(data) ==
    IF ~data.body THEN Error(400, "No input data provided.")
    ELSE IF data.missing
    THEN Error(400, "All parameters (sample_mean1, sample_mean2, std_dev1, std_dev2, sample_size1, sample_size2) are required.")
    ELSE IF data.sample_size1 <= 0 \/ data.sample_size2 <= 0
    THEN Error(400, "Sample sizes must be greater than zero.")
    ELSE IF data.std_dev1 <= 0 \/ data.std_dev2 <= 0
    THEN Error(400, "Standard deviations must be greater than zero.")
    ELSE
    LET pooled_std_error ==
            SSqrt(RatAdd(Rat(data.std_dev1 * data.std_dev1, data.sample_size1),
                         Rat(data.std_dev2 * data.std_dev2, data.sample_size2)))
        z_score ==
            SDiv(SRat(RInt(data.sample_mean1 - data.sample_mean2)), pooled_std_error)
        p_value == RatMul(RInt(2), RatSub(One, norm_cdf(SAbs(z_score))))
    IN  [status |-> 200,
         z_score |-> z_score,
         p_value |-> p_value,
         conclusion |-> IF RatLT(p_value, Rat(ZAlphaPercent, 100))
                        THEN "Reject null hypothesis"
                        ELSE "Fail to reject null hypothesis"]

ZTwoSampleRequests ==
    [endpoint : {"ztest_two_sample"}, body : {TRUE}, missing : {FALSE},
     sample_mean1 : {3, 5, 7}, sample_mean2 : {5},
     std_dev1 : {0, 1, 2}, std_dev2 : {0, 1},
     sample_size1 : {0, 1, 4}, sample_size2 : {0, 4}]
    \cup
    [endpoint : {"ztest_two_sample"}, body : BOOLEAN, missing : {TRUE},
     sample_mean1 : {5}, sample_mean2 : {5}, std_dev1 : {1}, std_dev2 : {1},
     sample_size1 : {4}, sample_size2 : {4}]

----------------------------------------------------------------------------
(* POST /two_sample_z_test of two_sample_z_test_api.py: two-sample z-test  *)
(* from summary statistics, stored in the test_results table.              *)

\* the critical value 1.96 of lines 70-71, in hundredths
StoredZ == 196

\* a handler whose table takes each dataset_id once, so that its answer
\* depends on the rows already stored
two_sample_z_test_unique(data) ==
    IF ~data.body THEN Error(400, "No input data provided.")
    ELSE IF data.missing THEN Error(400, "Missing or invalid parameters: std1")
    ELSE IF \E i \in DOMAIN db : db[i].dataset_id = data.dataset_id
    THEN Error(500, "UNIQUE constraint failed: test_results.dataset_id")
    ELSE IF data.n1 <= 0 \/ data.n2 <= 0 \/ data.std1 <= 0 \/ data.std2 <= 0
    THEN Error(400, "Sample sizes and standard deviations must be greater than zero.")
    ELSE
    LET pooled_std ==
            SSqrt(RatAdd(Rat(data.std1 * data.std1, data.n1),
                         Rat(data.std2 * data.std2, data.n2)))
        z_score == SDiv(SRat(RInt(data.mean1 - data.mean2)), pooled_std)
        p_value == RatMul(RInt(2), RatSub(One, norm_cdf(SAbs(z_score))))
        mean_diff == RInt(data.mean1 - data.mean2)
        margin == SMul(SRat(Rat(StoredZ, 100)), pooled_std)
    IN  [status |-> 200,
         dataset_id |-> data.dataset_id,
         z_score |-> z_score,
         p_value |-> p_value,
         mean_difference |-> mean_diff,
         lower |-> BoundSub(mean_diff, margin),
         upper |-> BoundAdd(mean_diff, margin)]

two_sample_z_test(data) ==
    IF ~data.body THEN Error(400, "No input data provided.")
    ELSE IF data.missing THEN Error(400, "Missing or invalid parameters: std1")
    ELSE IF data.n1 <= 0 \/ data.n2 <= 0 \/ data.std1 <= 0 \/ data.std2 <= 0
    THEN Error(400, "Sample sizes and standard deviations must be greater than zero.")
    ELSE
    LET pooled_std ==
            SSqrt(RatAdd(Rat(data.std1 * data.std1, data.n1),
                         Rat(data.std2 * data.std2, data.n2)))
        z_score == SDiv(SRat(RInt(data.mean1 - data.mean2)), pooled_std)
        p_value == RatMul(RInt(2), RatSub(One, norm_cdf(SAbs(z_score))))
        mean_diff == RInt(data.mean1 - data.mean2)
        margin == SMul(SRat(Rat(StoredZ, 100)), pooled_std)
    IN  [status |-> 200,
         dataset_id |-> data.dataset_id,
         z_score |-> z_score,
         p_value |-> p_value,
         mean_difference |-> mean_diff,
         lower |-> BoundSub(mean_diff, margin),
         upper |-> BoundAdd(mean_diff, margin)]

\* a table that keeps one row per dataset_id, as t_test_data does
test_results_replace(table, data) ==
    LET result == two_sample_z_test(data)
    IN  IF result.status # 200 THEN table
        ELSE SelectSeq(table, LAMBDA r : r.dataset_id # data.dataset_id)
             \o <<[dataset_id |-> data.dataset_id,
                   mean1 |-> data.mean1,
                   z_score |-> result.z_score]>>

\* lines 73-84: the test_results table after the handler answered `data`;
\* the plain INSERT appends a row under a fresh id
test_results_update(table, data) ==
    LET result == two_sample_z_test(data)
    IN  IF result.status # 200 THEN table
        ELSE Append(table, [dataset_id |-> data.dataset_id,
                            mean1 |-> data.mean1,
                            z_score |-> result.z_score])

StoredZRequests ==
    [endpoint : {"two_sample_z_test"}, body : {TRUE}, missing : {FALSE},
     dataset_id : {"d1", "d2"},
     mean1 : {3, 5, 7}, mean2 : {5}, std1 : {0, 1}, std2 : {0, 1},
     n1 : {0, 4}, n2 : {0, 4}]
    \cup
    [endpoint : {"two_sample_z_test"}, body : BOOLEAN, missing : {TRUE},
     dataset_id : {"d1"},
     mean1 : {5}, mean2 : {5}, std1 : {1}, std2 : {1}, n1 : {4}, n2 : {4}]

----------------------------------------------------------------------------
(* calculate_two_sample_z_test of app/utils.py: the two-sample z-test as a  *)
(* function of the six summary statistics (n1, n2 > 0; std1, std2 > 0).    *)

\* the critical value 1.96 of lines 176-177, in hundredths
HelperZ == 196

calculate_two_sample_z_test(mean1, mean2, std1, std2, n1, n2) ==
    LET pooled_se == SSqrt(RatAdd(Rat(std1 * std1, n1), Rat(std2 * std2, n2)))
        z_score == SDiv(SRat(RInt(mean1 - mean2)), pooled_se)
        p_value == RatMul(RInt(2), RatSub(One, norm_cdf(SAbs(z_score))))
        margin == SMul(SRat(Rat(HelperZ, 100)), pooled_se)
    IN  [z_score |-> z_score,
         p_value |-> p_value,
         lower |-> BoundSub(RInt(mean1 - mean2), margin),
         upper |-> BoundAdd(RInt(mean1 - mean2), margin)]

----------------------------------------------------------------------------
(* The applications and the request cycle.                                 *)

\* each of these is started on its own: the three scripts that build a Flask
\* app at import, and the two create_app factories of the app package
Apps ==
    {"One-sample-t-test_api", "z_test_api", "two_sample_z_test_api", "app", "app.api"}

\* the application run.py starts: create_app of the app package
RunApp == "app"

\* the blueprints app/api/__init__.py registers
ApiUrlRules ==
    {<<"/ztest/", "z_test">>,
     <<"/api/", "two_sample_z_test_func">>,
     <<"/ttest/one_sample_ttest", "one_sample_ttest">>,
     <<"/api/paired_ttest", "paired_ttest">>,
     <<"/api/two_sample_ttest", "two_sample_ttest">>}

\* the blueprints app/__init__.py registers: url_prefix + route, handler
AppUrlRules ==
    {<<"/ztest/", "z_test">>,
     <<"/api/", "two_sample_z_test_func">>,
     <<"/ttest/one_sample_ttest", "one_sample_ttest">>}

\* the URL rules of each application, as <<URL, handler>>
UrlRules(a) ==
    CASE a = "One-sample-t-test_api" -> {<<"/ttest", "one_sample_t_test">>}
      [] a = "z_test_api" -> {<<"/ztest", "one_sample_z_test">>,
                              <<"/ztest_two_sample", "ztest_two_sample">>}
      [] a = "two_sample_z_test_api" -> {<<"/two_sample_z_test", "two_sample_z_test">>}
      [] a = "app" -> AppUrlRules
      [] a = "app.api" -> AppUrlRules \cup
                          {<<"/api/paired_ttest", "paired_ttest">>,
                           <<"/api/two_sample_ttest", "two_sample_ttest">>}

\* the handlers the application routes requests to
Routes(a) == {rule[2] : rule \in UrlRules(a)}

\* werkzeug's dispatch of a POST to `url`: the handler of the matching rule;
\* a redirect when only the rule with a trailing slash matches
\* (strict_slashes); otherwise 404
Dispatch(a, url) ==
    IF \E rule \in UrlRules(a) : rule[1] = url
    THEN (CHOOSE rule \in UrlRules(a) : rule[1] = url)[2]
    ELSE IF \E rule \in UrlRules(a) : rule[1] = url \o "/"
    THEN "redirect"
    ELSE "not_found"

\* the answer to a request no handler receives
no_route(a, url) ==
    IF Dispatch(a, url) = "redirect"
    THEN [status |-> 308, location |-> url \o "/"]
    ELSE [status |-> 404]

\* the URLs and the body the tests of src/tests post
TestUrls == {"/ztest", "/ztest/one_sample_ztest"}

TestGroups ==
    <<[size |-> 40, proportion |-> Rat(3, 10)], [size |-> 60, proportion |-> Rat(7, 10)]>>

\* the URLs of the paired and the two-sample t-test blueprints
TTestBlueprintUrls == {"/api/paired_ttest", "/api/two_sample_ttest"}

UnroutedRequests ==
    [endpoint : {"no_route"}, url : TestUrls \cup TTestBlueprintUrls,
     kind : {"json"}, groups : {TestGroups}]

\* init_db creates the table if it does not exist; a fresh deployment starts
\* with no rows
Init ==
    /\ app \in Apps
    /\ db = <<>>
    /\ pc = "idle"
    /\ req = NoRequest
    /\ resp = NoResponse

\* the table is followed up to MaxRows rows
Handle_one_sample_t_test ==
    /\ pc = "idle"
    /\ "one_sample_t_test" \in Routes(app)
    /\ \E data \in TTestRequests :
          /\ req' = data
          /\ resp' = one_sample_t_test(data)
          /\ db' = t_test_data_update(db, data)
          /\ Len(db') <= MaxRows
    /\ pc' = "responded"
    /\ UNCHANGED app

Handle_one_sample_ttest ==
    /\ pc = "idle"
    /\ "one_sample_ttest" \in Routes(app)
    /\ \E data \in RawTTestRequests :
          /\ req' = data
          /\ resp' = one_sample_ttest(data)
    /\ pc' = "responded"
    /\ UNCHANGED <<app, db>>

Handle_two_sample_ttest ==
    /\ pc = "idle"
    /\ "two_sample_ttest" \in Routes(app)
    /\ \E data \in TwoSampleTTestRequests :
          /\ req' = data
          /\ resp' = two_sample_ttest(data)
    /\ pc' = "responded"
    /\ UNCHANGED <<app, db>>

Handle_paired_ttest ==
    /\ pc = "idle"
    /\ "paired_ttest" \in Routes(app)
    /\ \E data \in PairedTTestRequests :
          /\ req' = data
          /\ resp' = paired_ttest(data)
    /\ pc' = "responded"
    /\ UNCHANGED <<app, db>>

Handle_z_test ==
    /\ pc = "idle"
    /\ "z_test" \in Routes(app)
    /\ \E data \in ZTestRequests :
          /\ req' = data
          /\ resp' = z_test(data)
    /\ pc' = "responded"
    /\ UNCHANGED <<app, db>>

Handle_two_sample_z_test_func ==
    /\ pc = "idle"
    /\ "two_sample_z_test_func" \in Routes(app)
    /\ \E data \in GroupedZRequests :
          /\ req' = data
          /\ resp' = two_sample_z_test_func(data)
    /\ pc' = "responded"
    /\ UNCHANGED <<app, db>>

Handle_one_sample_z_test ==
    /\ pc = "idle"
    /\ "one_sample_z_test" \in Routes(app)
    /\ \E data \in OneSampleZRequests :
          /\ req' = data
          /\ resp' = one_sample_z_test(data)
    /\ pc' = "responded"
    /\ UNCHANGED <<app, db>>

Handle_ztest_two_sample ==
    /\ pc = "idle"
    /\ "ztest_two_sample" \in Routes(app)
    /\ \E data \in ZTwoSampleRequests :
          /\ req' = data
          /\ resp' = ztest_two_sample(data)
    /\ pc' = "responded"
    /\ UNCHANGED <<app, db>>

\* the table is followed up to MaxRows rows
Handle_two_sample_z_test ==
    /\ pc = "idle"
    /\ "two_sample_z_test" \in Routes(app)
    /\ \E data \in StoredZRequests :
          /\ req' = data
          /\ resp' = two_sample_z_test(data)
          /\ db' = test_results_update(db, data)
          /\ Len(db') <= MaxRows
    /\ pc' = "responded"
    /\ UNCHANGED app

\* a request to a URL that has no handler in the running application
Handle_no_route ==
    /\ pc = "idle"
    /\ \E data \in UnroutedRequests :
          /\ Dispatch(app, data.url) \in {"redirect", "not_found"}
          /\ req' = data
          /\ resp' = no_route(app, data.url)
    /\ pc' = "responded"
    /\ UNCHANGED <<app, db>>

\* the response is sent and the server waits for the next request
Deliver ==
    /\ pc = "responded"
    /\ pc' = "idle"
    /\ req' = NoRequest
    /\ resp' = NoResponse
    /\ UNCHANGED <<app, db>>

Next ==
    \/ Handle_one_sample_t_test
    \/ Handle_one_sample_ttest
    \/ Handle_two_sample_ttest
    \/ Handle_paired_ttest
    \/ Handle_z_test
    \/ Handle_two_sample_z_test_func
    \/ Handle_one_sample_z_test
    \/ Handle_ztest_two_sample
    \/ Handle_two_sample_z_test
    \/ Handle_no_route
    \/ Deliver

Spec == Init /\ [][Next]_vars

----------------------------------------------------------------------------
(* What a request asks for and what its response reports.                  *)

Responded == pc = "responded"

Succeeded == pc = "responded" /\ resp.status = 200

Endpoint == req.endpoint

\* the z-test endpoints
ZTestEndpoints ==
    {"z_test", "two_sample_z_test_func", "one_sample_z_test", "ztest_two_sample",
     "two_sample_z_test"}

\* the test statistic, p-value and interval bounds a success response reports
Statistic ==
    IF Endpoint = "z_test" THEN resp.body.results.results.z_score
    ELSE IF Endpoint \in ZTestEndpoints THEN resp.z_score
    ELSE resp.t_score

PValue ==
    IF Endpoint = "z_test" THEN resp.body.results.results.p_value ELSE resp.p_value

LowerBound ==
    IF Endpoint = "z_test" THEN resp.body.results.results.confidence_interval.lower_bound
    ELSE resp.lower

UpperBound ==
    IF Endpoint = "z_test" THEN resp.body.results.results.confidence_interval.upper_bound
    ELSE resp.upper

\* the cdf of the null distribution the endpoint evaluates its statistic under
ResponseCdf(x) ==
    IF Endpoint \in ZTestEndpoints
    THEN norm_cdf(x)
    ELSE IF Endpoint = "two_sample_ttest"
    THEN t_cdf_frac(x, welch_df(req.group1, req.group2))
    ELSE t_cdf(x, resp.degrees_of_freedom)

\* the alternative the request asks for, in the vocabulary of its endpoint
RequestedAlternative ==
    LET a == IF Endpoint = "two_sample_z_test_func"
             THEN Upper(OrDefault(req.alternative, "NE"))
             ELSE req.alternative
    IN  IF a \in {"greater", "GT"} THEN "greater"
        ELSE IF a \in {"less", "LT"} THEN "less"
        ELSE IF a \in {"None", "not_equal", "two-sided", "NE"} THEN "two-sided"
        ELSE "unrecognised"

\* the p-value of a statistic under an alternative
AlternativePValue(alternative, x) ==
    IF alternative = "greater" THEN RatSub(One, ResponseCdf(x))
    ELSE IF alternative = "less" THEN ResponseCdf(x)
    ELSE RatMul(RInt(2), RatSub(One, ResponseCdf(SAbs(x))))

InUnitInterval(p) == RatLE(RInt(0), p) /\ RatLE(p, One)

Smaller(x, y) == IF RatLE(x, y) THEN x ELSE y

\* the endpoints that take an alternative hypothesis from the request
AlternativeEndpoints ==
    {"one_sample_t_test", "one_sample_ttest", "two_sample_ttest", "two_sample_z_test_func"}

\* the t-test endpoints
TTestEndpoints ==
    {"one_sample_t_test", "one_sample_ttest", "two_sample_ttest", "paired_ttest"}

\* the endpoints whose success response carries a two-bound interval
IntervalEndpoints ==
    {"one_sample_t_test", "one_sample_ttest", "two_sample_ttest",
     "two_sample_z_test_func", "z_test", "two_sample_z_test"}

\* the confidence level the request carries (as a fraction)
RequestedConfidence ==
    IF Endpoint = "two_sample_ttest" THEN req.confidence
    ELSE IF Endpoint = "two_sample_z_test_func" THEN OrNone(req.confidence, Rat(95, 100))
    ELSE IF Endpoint = "z_test"
    THEN Rat(OrNone(req.form.confidence_interval, RInt(DefaultConfidenceInterval)).n, 100)
    ELSE req.confidence_level

\* the one-sample t-test applies no adjustment to this request
Unadjusted ==
    Endpoint = "one_sample_t_test" => (req.adjustment = "None" \/ req.num_comparisons <= 1)

\* the raw (unadjusted) p-value of the summary-statistics one-sample t-test
RawPValue ==
    AlternativePValue(RequestedAlternative, resp.t_score)

----------------------------------------------------------------------------
(* C1: in every endpoint that takes an alternative from the request, the   *)
(* returned p-value is the one of the requested alternative: two-sided     *)
(* 2*(1 - cdf(|statistic|)), greater 1 - cdf(statistic), less              *)
(* cdf(statistic).                                                         *)
C1_PValueOfRequestedAlternative ==
    (/\ Succeeded
     /\ Endpoint \in AlternativeEndpoints
     /\ RequestedAlternative # "unrecognised"
     /\ Unadjusted)
    => PValue = AlternativePValue(RequestedAlternative, Statistic)

(* C2: in every endpoint that returns a conclusion with a confidence       *)
(* interval, the conclusion rejects the null hypothesis if and only if the *)
(* returned p-value is strictly less than 1 minus the confidence level of  *)
(* the request's interval.                                                 *)
C2_ConclusionMatchesConfidence ==
    (Succeeded /\ Endpoint \in {"one_sample_t_test", "z_test"})
    => LET rejects ==
               IF Endpoint = "z_test"
               THEN resp.body.results.results.conclusion
                        = "There is a significant difference in the proportions."
               ELSE resp.conclusion = "Reject null hypothesis"
       IN  rejects <=> RatLT(PValue, RatSub(One, RequestedConfidence))

C4_PValuesInUnitInterval ==
    (Succeeded /\ ~IsNaN(ResponseCdf(Statistic)))
    => /\ InUnitInterval(PValue)
       /\ Endpoint = "one_sample_t_test"
            => InUnitInterval(ttest_p_value(OrDefault(req.alternative, "not_equal"),
                                            resp.t_score, resp.degrees_of_freedom))

\* C4's case happens: a bonferroni product above 1 is reported as 1
C4_Witness ==
    /\ Succeeded
    /\ Endpoint = "one_sample_t_test"
    /\ req.adjustment = "bonferroni"
    /\ RequestedAlternative = "less"
    /\ RatLT(One, RatMul(RawPValue, RInt(req.num_comparisons)))
    /\ resp.p_value = One

(* C5: in every success response with a confidence interval (whose bounds  *)
(* are numbers), lower bound <= upper bound, for every accepted            *)
(* alternative and confidence level.                                       *)
C5_LowerAtMostUpper ==
    (/\ Succeeded
     /\ Endpoint \in IntervalEndpoints
     /\ ~BoundIsNaN(LowerBound)
     /\ ~BoundIsNaN(UpperBound))
    => BoundLE(LowerBound, UpperBound)

(* C6: a request whose alternative or adjustment is not a recognised value *)
(* is rejected with an error and produces no test result.                  *)
C6_UnknownEnumRejected ==
    (/\ Responded
     /\ \/ Endpoint \in AlternativeEndpoints /\ req.alternative = "bogus"
        \/ Endpoint = "one_sample_t_test" /\ req.adjustment = "bogus")
    => resp.status # 200

(* C7: a request whose confidence level is not strictly between 0 and 1 is *)
(* rejected with an error, and no statistic, p-value or interval is        *)
(* returned.                                                               *)
C7_ConfidenceOutOfRangeRejected ==
    (/\ Responded
     /\ Endpoint \in AlternativeEndpoints
     /\ ~(RatLT(RInt(0), RequestedConfidence) /\ RatLT(RequestedConfidence, One)))
    => resp.status # 200

\* the standard deviation entering the statistic is zero
ZeroStandardDeviation ==
    IF Endpoint = "one_sample_t_test" THEN req.body /\ ~req.missing /\ req.sample_std = 0
    ELSE IF Endpoint = "one_sample_z_test"
    THEN req.body /\ ~req.missing /\ req.standard_deviation = 0
    ELSE IF Endpoint = "two_sample_z_test_func"
    THEN req.kind = "json" /\ ~req.missing /\ (req.std1 = 0 \/ req.std2 = 0)
    ELSE IF Endpoint = "ztest_two_sample"
    THEN req.body /\ ~req.missing /\ (req.std_dev1 = 0 \/ req.std_dev2 = 0)
    ELSE IF Endpoint = "two_sample_z_test"
    THEN req.body /\ ~req.missing /\ (req.std1 = 0 \/ req.std2 = 0)
    ELSE IF Endpoint = "one_sample_ttest"
    THEN req.kind = "json" /\ np_var(req.sample) = RInt(0)
    ELSE IF Endpoint = "paired_ttest"
    THEN /\ req.kind # "none"
         /\ Len(req.before) = Len(req.after)
         /\ np_var(Differences(req.before, req.after)) = RInt(0)
    ELSE IF Endpoint = "two_sample_ttest"
    THEN /\ req.kind = "json"
         /\ np_var(req.group1) = RInt(0)
         /\ np_var(req.group2) = RInt(0)
    ELSE FALSE

(* C8: whenever the standard deviation entering a test statistic is zero   *)
(* (supplied as 0, or computed as 0 from a raw sample of equal values),    *)
(* the request ends in an error; no success response is returned.          *)
C8_ZeroStdRejected ==
    (Responded /\ ZeroStandardDeviation) => resp.status # 200

(* C9: in the two-proportion z-test, whenever the standard-error           *)
(* denominator is zero (pooled proportion 0 or 1, or a group size of 0)    *)
(* the request ends in an error and no z-score or p-value is returned.     *)
C9_ZeroStandardErrorRejected ==
    (/\ Responded
     /\ Endpoint = "z_test"
     /\ req.kind # "none"
     /\ Len(req.groups) >= 2
     /\ LET n1 == req.groups[1].size
            n2 == req.groups[2].size
            pooled == RatAdd(RatMul(RInt(n1), req.groups[1].proportion),
                             RatMul(RInt(n2), req.groups[2].proportion))
        IN  n1 = 0 \/ n2 = 0 \/ pooled = RInt(0) \/ pooled = RInt(n1 + n2))
    => resp.status # 200

(* C10: every t-test endpoint rejects a sample of fewer than 2             *)
(* observations, so that a result is only produced with degrees of         *)
(* freedom > 0.                                                            *)
C10_TTestNeedsTwoObservations ==
    (Succeeded /\ Endpoint \in TTestEndpoints) => resp.degrees_of_freedom > 0

OneSidedInterval ==
    \/ LowerBound.m.k = "inf" /\ LowerBound.m.s < 0
    \/ UpperBound.m.k = "inf" /\ UpperBound.m.s > 0

\* the two-sided margin quantile((1 + confidence_level)/2) * standard error of
\* the summary-statistics one-sample t-test
TwoSidedMargin ==
    SMul(t_ppf(RatMul(RatAdd(One, req.confidence_level), Rat(1, 2)),
               req.sample_size - 1),
         SDiv(SRat(RInt(req.sample_std)), SSqrt(RInt(req.sample_size))))

(* C12: in every endpoint that accepts an alternative and a confidence     *)
(* level, a request with a one-sided alternative (greater or less) is not  *)
(* answered with the two-sided interval: a success response carries an     *)
(* interval with one bound infinite, and in the summary-statistics         *)
(* one-sample t-test the bounds are not mean -+ the two-sided margin.      *)
C12_OneSidedIntervalForOneSidedTest ==
    (/\ Succeeded
     /\ Endpoint \in AlternativeEndpoints
     /\ RequestedAlternative \in {"greater", "less"})
    => /\ OneSidedInterval
       /\ Endpoint = "one_sample_t_test"
            => ~(/\ LowerBound = BoundSub(RInt(req.sample_mean), TwoSidedMargin)
                 /\ UpperBound = BoundAdd(RInt(req.sample_mean), TwoSidedMargin))

(* C13: in the two-sample t-test, computed under the Welch assumption, the *)
(* degrees of freedom reported (and used for the critical value) are the   *)
(* unrounded Welch-Satterthwaite value, for all groups of at least 2       *)
(* observations with positive variances.                                   *)
C13_WelchDegreesOfFreedom ==
    (/\ Succeeded
     /\ Endpoint = "two_sample_ttest"
     /\ RatLT(RInt(0), np_var(req.group1))
     /\ RatLT(RInt(0), np_var(req.group2)))
    => RInt(resp.degrees_of_freedom) = welch_df(req.group1, req.group2)

\* the request carries the two five-subject series
FiveSubjectRequest ==
    /\ Succeeded
    /\ Endpoint = "paired_ttest"
    /\ req.before = BloodPressureBefore
    /\ req.after = BloodPressureAfter

\* in every paired response the mean difference is the mean of the per-pair
\* differences before[i] - after[i] and df is the number of pairs minus 1
PairedMeanAndDf ==
    (Succeeded /\ Endpoint = "paired_ttest")
    => /\ resp.mean_difference = np_mean(Differences(req.before, req.after))
       /\ resp.degrees_of_freedom = Len(req.before) - 1

(* C14, as stated: for before = [120,122,118,130,125] and                  *)
(* after = [115,117,116,125,120] the reported mean difference is 5.0 and   *)
(* df is 4; in general the mean difference is the mean of the per-pair     *)
(* differences and df = number of pairs - 1.                               *)
C14_ExampleAsStated ==
    /\ FiveSubjectRequest
          => (resp.mean_difference = RInt(5) /\ resp.degrees_of_freedom = 4)
    /\ PairedMeanAndDf

(* C14, amended: for the same two series the reported mean difference is   *)
(* 4.4 (the differences are 5, 5, 2, 5, 5) and df is 4; the general rule   *)
(* is unchanged.                                                           *)
C14_ExampleAmended ==
    /\ FiveSubjectRequest
          => (resp.mean_difference = Rat(44, 10) /\ resp.degrees_of_freedom = 4)
    /\ PairedMeanAndDf

\* C14's case happens: the five-subject request is answered with 4.4 and 4
C14_Witness ==
    /\ FiveSubjectRequest
    /\ Differences(req.before, req.after) = <<5, 5, 2, 5, 5>>
    /\ resp.mean_difference = Rat(44, 10)
    /\ resp.degrees_of_freedom = 4

\* the URL the request was posted to
RequestUrl ==
    IF "url" \in DOMAIN req THEN req.url
    ELSE (CHOOSE rule \in UrlRules(app) : rule[2] = Endpoint)[1]

\* the top-level keys of the JSON object of the response
TopLevelKeys ==
    IF "body" \in DOMAIN resp THEN DOMAIN resp.body ELSE DOMAIN resp \ {"status"}

(* C15: on the application create_app() returns, a JSON POST to the z-test *)
(* URL the tests use ('/ztest', resp. '/ztest/one_sample_ztest') that      *)
(* carries exactly two groups with size and proportion is answered with    *)
(* status 200 and a JSON object with top-level keys 'z_score' and          *)
(* 'p_value'.                                                              *)
C15_TestUrlAnswered ==
    (/\ Responded
     /\ app \in {"app", "app.api"}
     /\ RequestUrl \in TestUrls
     /\ req.kind = "json"
     /\ Len(req.groups) = 2)
    => /\ resp.status = 200
       /\ {"z_score", "p_value"} \subseteq TopLevelKeys

\* the two-sample endpoints
TwoSampleEndpoints ==
    {"two_sample_ttest", "two_sample_z_test_func", "ztest_two_sample",
     "two_sample_z_test", "z_test"}

\* the request with the two groups exchanged
SwappedRequest ==
    CASE Endpoint = "two_sample_ttest" ->
           [req EXCEPT !.group1 = req.group2, !.group2 = req.group1]
      [] Endpoint = "two_sample_z_test_func" ->
           [req EXCEPT !.data = <<req.data[2], req.data[1]>>,
                       !.std1 = req.std2, !.std2 = req.std1]
      [] Endpoint = "ztest_two_sample" ->
           [req EXCEPT !.sample_mean1 = req.sample_mean2, !.sample_mean2 = req.sample_mean1,
                       !.std_dev1 = req.std_dev2, !.std_dev2 = req.std_dev1,
                       !.sample_size1 = req.sample_size2, !.sample_size2 = req.sample_size1]
      [] Endpoint = "two_sample_z_test" ->
           [req EXCEPT !.mean1 = req.mean2, !.mean2 = req.mean1,
                       !.std1 = req.std2, !.std2 = req.std1,
                       !.n1 = req.n2, !.n2 = req.n1]
      [] Endpoint = "z_test" ->
           [req EXCEPT !.groups[1] = req.groups[2], !.groups[2] = req.groups[1]]

\* the answer of the same endpoint to the exchanged request
SwappedResponse ==
    CASE Endpoint = "two_sample_ttest" -> two_sample_ttest(SwappedRequest)
      [] Endpoint = "two_sample_z_test_func" -> two_sample_z_test_func(SwappedRequest)
      [] Endpoint = "ztest_two_sample" -> ztest_two_sample(SwappedRequest)
      [] Endpoint = "two_sample_z_test" -> two_sample_z_test(SwappedRequest)
      [] Endpoint = "z_test" -> z_test(SwappedRequest)

\* statistic, p-value and bounds of a response r of the current endpoint
StatisticOf(r) ==
    IF Endpoint = "z_test" THEN r.body.results.results.z_score
    ELSE IF Endpoint \in ZTestEndpoints THEN r.z_score
    ELSE r.t_score

PValueOf(r) ==
    IF Endpoint = "z_test" THEN r.body.results.results.p_value ELSE r.p_value

LowerOf(r) ==
    IF Endpoint = "z_test" THEN r.body.results.results.confidence_interval.lower_bound
    ELSE r.lower

UpperOf(r) ==
    IF Endpoint = "z_test" THEN r.body.results.results.confidence_interval.upper_bound
    ELSE r.upper

\* the bound -b
NegBound(b) == [c |-> RatNeg(b.c), m |-> SNeg(b.m)]

\* calculate_two_sample_z_test on the six statistics in the two orders
HelperSwapSymmetric(mean1, mean2, std1, std2, n1, n2) ==
    LET r == calculate_two_sample_z_test(mean1, mean2, std1, std2, n1, n2)
        q == calculate_two_sample_z_test(mean2, mean1, std2, std1, n2, n1)
    IN  /\ q.z_score = SNeg(r.z_score)
        /\ q.p_value = r.p_value
        /\ q.lower = NegBound(r.upper)
        /\ q.upper = NegBound(r.lower)

(* C16: in every two-sample test with a two-sided alternative, exchanging  *)
(* the two groups negates the statistic, leaves the p-value unchanged and  *)
(* mirrors the interval: new lower = -(old upper), new upper = -(old       *)
(* lower).                                                                 *)
C16_SwapSymmetry ==
    (/\ Succeeded
     /\ Endpoint \in TwoSampleEndpoints
     /\ Endpoint \in AlternativeEndpoints => RequestedAlternative = "two-sided")
    => /\ SwappedResponse.status = 200
       /\ StatisticOf(SwappedResponse) = SNeg(Statistic)
       /\ PValueOf(SwappedResponse) = PValue
       /\ Endpoint \in IntervalEndpoints
            => /\ LowerOf(SwappedResponse) = NegBound(UpperBound)
               /\ UpperOf(SwappedResponse) = NegBound(LowerBound)
       /\ Endpoint = "two_sample_z_test"
            => HelperSwapSymmetric(req.mean1, req.mean2, req.std1, req.std2,
                                   req.n1, req.n2)

\* C16's case happens: groups of different sizes and a statistic that is
\* not zero, positive in one order and negative in the other
C16_Witness ==
    /\ Succeeded
    /\ Endpoint = "two_sample_ttest"
    /\ Len(req.group1) # Len(req.group2)
    /\ Statistic.k = "fin"
    /\ Statistic.s = 1
    /\ StatisticOf(SwappedResponse).s = -1
    /\ ~BoundIsNaN(LowerBound)
    /\ LowerBound # NegBound(UpperBound)

----------------------------------------------------------------------------
\* the p-value the summary-statistics t-test computes before the adjustment
\* (One-sample-t-test_api.py lines 76-81)
ComputedRawPValue ==
    ttest_p_value(OrDefault(req.alternative, "not_equal"),
                  resp.t_score, resp.degrees_of_freedom)

\* the numbers of comparisons the adjustment is examined for
Comparisons == 1..MaxComparisons

\* adjusted >= p, non-decreasing in num_comparisons, equal to p at 1
NeverReduces(p, adjustment) ==
    \A k \in Comparisons :
        /\ RatLE(p, ttest_adjust(p, adjustment, k))
        /\ k + 1 \in Comparisons
             => RatLE(ttest_adjust(p, adjustment, k),
                      ttest_adjust(p, adjustment, k + 1))
        /\ k = 1 => ttest_adjust(p, adjustment, k) = p

----------------------------------------------------------------------------
\* what the handler of the request's endpoint computes from the request
HandlerResponse(data) ==
    CASE data.endpoint = "one_sample_t_test" -> one_sample_t_test(data)
      [] data.endpoint = "one_sample_ttest" -> one_sample_ttest(data)
      [] data.endpoint = "two_sample_ttest" -> two_sample_ttest(data)
      [] data.endpoint = "paired_ttest" -> paired_ttest(data)
      [] data.endpoint = "z_test" -> z_test(data)
      [] data.endpoint = "two_sample_z_test_func" -> two_sample_z_test_func(data)
      [] data.endpoint = "one_sample_z_test" -> one_sample_z_test(data)
      [] data.endpoint = "ztest_two_sample" -> ztest_two_sample(data)
      [] data.endpoint = "two_sample_z_test" -> two_sample_z_test(data)
      [] data.endpoint = "no_route" -> no_route(app, data.url)

----------------------------------------------------------------------------
\* the application that keeps the t_test_data table is running
TTestDataKept == "one_sample_t_test" \in Routes(app)

\* the row the summary-statistics t-test stores for the answered request
StoredRow ==
    [dataset_id |-> OrDefault(req.dataset_id, "default_dataset"),
     sample_mean |-> req.sample_mean,
     conclusion |-> resp.conclusion]

(* C19: the t_test_data table holds at most one row per dataset_id; after  *)
(* a successful request the row of its dataset_id holds the inputs and     *)
(* results of that request, the most recent one for the dataset_id; a      *)
(* request without dataset_id is stored under 'default_dataset'.           *)
C19_OneRowPerDataset ==
    TTestDataKept
    => /\ \A i, j \in DOMAIN db :
              db[i].dataset_id = db[j].dataset_id => i = j
       /\ (Succeeded /\ Endpoint = "one_sample_t_test")
            => /\ \E i \in DOMAIN db : db[i] = StoredRow
               /\ \A i \in DOMAIN db :
                      db[i].dataset_id = StoredRow.dataset_id => db[i] = StoredRow
               /\ req.dataset_id = "None"
                    => StoredRow.dataset_id = "default_dataset"

----------------------------------------------------------------------------
\* the application that keeps the test_results table is running
TestResultsKept == "two_sample_z_test" \in Routes(app)

\* this step answers a request to the standalone two-sample z-test with 200
AnsweredWith200 ==
    /\ pc = "idle"
    /\ pc' = "responded"
    /\ req'.endpoint = "two_sample_z_test"
    /\ resp'.status = 200

(* C20: every step that answers a request to the standalone two-sample     *)
(* z-test with status 200 adds exactly one row, holding that request, to   *)
(* the end of test_results and leaves the rows already stored as they      *)
(* are; every other step leaves the table unchanged. So the number of rows *)
(* is the number of 200 responses, and no row is modified or removed.      *)
C20_OneRowPerSuccess ==
    [][TestResultsKept
       => IF AnsweredWith200
          THEN /\ Len(db') = Len(db) + 1
               /\ SubSeq(db', 1, Len(db)) = db
               /\ db'[Len(db')].dataset_id = req'.dataset_id
               /\ db'[Len(db')].mean1 = req'.mean1
               /\ db'[Len(db')].z_score = resp'.z_score
          ELSE db' = db]_vars

\* C20's case happens: a later request with the dataset_id of a stored row
\* and other inputs was answered with 200, and both rows are in the table
C20_Witness ==
    /\ Succeeded
    /\ Endpoint = "two_sample_z_test"
    /\ Len(db) = MaxRows
    /\ db[Len(db)].dataset_id = db[1].dataset_id
    /\ db[Len(db)].mean1 # db[1].mean1
    /\ db[Len(db)].mean1 = req.mean1

----------------------------------------------------------------------------
\* the endpoints that store their results in a table
DatabaseEndpoints == {"one_sample_t_test", "two_sample_z_test"}

\* this step answers a request to a database-backed endpoint with 400
RejectedWith400 ==
    /\ pc = "idle"
    /\ pc' = "responded"
    /\ req'.endpoint \in DatabaseEndpoints
    /\ resp'.status = 400

(* C21: a step in which a database-backed endpoint rejects a request with  *)
(* status 400 (no body, missing parameter, non-positive size or standard   *)
(* deviation, confidence level out of range) leaves the table as it was.   *)
C21_RejectionLeavesDatabase ==
    [][RejectedWith400 => db' = db]_vars

\* C21's case happens: a request with a valid body is rejected while the
\* table holds the row of its dataset_id with other inputs, which stays
C21_Witness ==
    /\ Responded
    /\ Endpoint = "one_sample_t_test"
    /\ resp.status = 400
    /\ req.body
    /\ ~req.missing
    /\ \E i \in DOMAIN db :
          /\ db[i].dataset_id = OrDefault(req.dataset_id, "default_dataset")
          /\ db[i].sample_mean # req.sample_mean

----------------------------------------------------------------------------
\* the request without the parameters its JSON body carries
WithoutJsonParameters == [req EXCEPT !.json_parameters = NoForm]

(* C22: the two-proportion z-test answers a request with a JSON body as it *)
(* answers the same body without alpha_value, confidence_interval and      *)
(* yates_correction: the significance level, the confidence percentage and *)
(* the Yates flag are the defaults 0.05, 95 and 0.                         *)
C22_JsonParametersIgnored ==
    (Responded /\ Endpoint = "z_test" /\ req.kind = "json")
    => /\ resp = z_test(WithoutJsonParameters)
       /\ resp.status = 200
            => /\ resp.body.results.yates_correction = 0
               /\ resp.body.confidence_level = DefaultConfidenceInterval * 100
               /\ resp.body.results.results.conclusion
                    = z_conclusion(PValue, DefaultAlpha)

\* C22's case happens: the JSON body asks for alpha 0.01 and 99 percent,
\* and the p-value lies between 0.01 and 0.05
C22_Witness ==
    /\ Succeeded
    /\ Endpoint = "z_test"
    /\ req.kind = "json"
    /\ req.json_parameters.alpha_value = Rat(1, 100)
    /\ req.json_parameters.confidence_interval = RInt(99)
    /\ RatLE(Rat(1, 100), PValue)
    /\ RatLT(PValue, DefaultAlpha)
    /\ resp.body.results.results.conclusion
         = "There is a significant difference in the proportions."

----------------------------------------------------------------------------
(* C23: the application run.py starts routes requests to exactly the       *)
(* two-proportion z-test, the grouped two-sample z-test and the raw-sample *)
(* one-sample t-test; the paired and the two-sample t-test are routed only *)
(* by the create_app of app/api/__init__.py, and in the running            *)
(* application a request to their URLs is answered 404 by no handler.      *)
C23_RunAppBlueprints ==
    /\ Routes(RunApp) = {"z_test", "two_sample_z_test_func", "one_sample_ttest"}
    /\ \A a \in Apps :
          Routes(a) \cap {"paired_ttest", "two_sample_ttest"} # {} => a = "app.api"
    /\ (app = RunApp /\ Responded)
         => /\ Endpoint \in Routes(RunApp) \cup {"no_route"}
            /\ (Endpoint = "no_route" /\ req.url \in TTestBlueprintUrls)
                 => resp.status = 404

\* C23's case happens: the running application answers a request to the
\* paired t-test URL with 404
C23_Witness ==
    /\ app = RunApp
    /\ Responded
    /\ Endpoint = "no_route"
    /\ req.url = "/api/paired_ttest"
    /\ resp.status = 404

----------------------------------------------------------------------------
\* the lower confidence bound of the mean difference for H1 'Mean
\* Difference > 0': the t critical value of the level and df times the
\* standard error below the mean difference
OneSidedTBound(level) ==
    BoundSub(resp.mean_difference,
             SMul(t_ppf(level, resp.degrees_of_freedom),
                  SDiv(resp.standard_deviation, SSqrt(RInt(resp.n_before)))))

(* C24: in every paired t-test response with a t statistic that is a       *)
(* number, the p-value is the upper-tail probability 1 - cdf(t) with       *)
(* df = n - 1, the alternative of the H1 field 'Mean Difference > 0', and  *)
(* the 95% confidence bound uses the t critical value of that df.          *)
C24_PairedMatchesH1 ==
    (/\ Succeeded
     /\ Endpoint = "paired_ttest"
     /\ resp.t_score.k = "fin")
    => /\ resp.H1 = "Mean Difference > 0"
       /\ resp.degrees_of_freedom = resp.n_before - 1
       /\ resp.p_value = RatSub(One, t_cdf(resp.t_score, resp.degrees_of_freedom))
       /\ resp.confidence_bound = OneSidedTBound(Rat(95, 100))

====
